---- MODULE Spec2Model ----
(***************************************************************************)
(* Authorization and tenant isolation of the EventManager backend          *)
(* (src/server.js).  The file holds three successive revisions of the      *)
(* server; env.variant says which one is deployed.  Revision 3 (lines        *)
(* 344-794) is the complete one; revisions 1 (lines 1-176) and 2 (lines    *)
(* 178-342) only have the login route and the two ASBL read routes.        *)
(***************************************************************************)
EXTENDS Integers, Sequences, FiniteSets, TLC

VARIABLES
  env,       \* the deployment: the revision of server.js that runs (variant 1, 2
             \* or 3) and process.env (password: SUPERADMIN_PASSWORD, secret: JWT_SECRET)
  store,     \* the Airtable base: tables ASBL, Benevoles, participants, Reservations
  now,       \* the clock, in hours
  held,      \* the token the client got from its last successful login
  req,       \* the requests in flight, one per slot
  active,    \* the slots that take requests
  fn         \* last application of a helper function (SpecFn)

vars == <<env, store, now, held, req, active, fn>>

(***************************************************************************)
(* Bounds                                                                  *)
(***************************************************************************)
MaxTime == 8      \* the clock stops advancing at this hour
MaxCreated == 1   \* records the create routes may add to each table

(***************************************************************************)
(* JavaScript values.  A string is a sequence of one-character strings so  *)
(* that trim() and === are computed, not assumed.                          *)
(***************************************************************************)
Undefined == [k |-> "undefined", s |-> <<>>]
Null == [k |-> "null", s |-> <<>>]
Str(s) == [k |-> "string", s |-> s]
Arr(ids) == [k |-> "array", s |-> ids]

\* a string-typed field that is absent (undefined)
Absent == "<undefined>"

RECURSIVE TrimLeft(_)
TrimLeft(s) == IF s # <<>> /\ Head(s) = " " THEN TrimLeft(Tail(s)) ELSE s

RECURSIVE TrimRight(_)
TrimRight(s) == IF s # <<>> /\ s[Len(s)] = " " THEN TrimRight(SubSeq(s, 1, Len(s) - 1)) ELSE s

\* String.prototype.trim
Trim(s) == TrimRight(TrimLeft(s))

\* JS truthiness of a value: undefined, null and '' are falsy
Truthy(v) == \/ v.k = "array"
             \/ v.k = "string" /\ v.s # <<>>

\* typeof x === 'string' && x.trim()
NonBlankString(v) == v.k = "string" /\ Trim(v.s) # <<>>

\* (req.query.asblId || '').toString().trim()
QueryString(v) == IF Truthy(v) /\ v.k = "string" THEN Trim(v.s) ELSE <<>>

\* truthiness of a string-typed field
Present(x) == x # Absent /\ x # ""

(***************************************************************************)
(* Identity claims and tokens                                              *)
(***************************************************************************)
ExpiresInHours == 8

Claim(id, type, asblId) == [id |-> id, type |-> type, asblId |-> asblId]

NoUser == Claim(Absent, Absent, Undefined)

NoToken == [payload |-> NoUser, exp |-> 0, sig |-> "none"]

\* jwt.sign(payload, secret, { expiresIn: '8h' })
JwtSign(payload, t) == [payload |-> payload, exp |-> t + ExpiresInHours, sig |-> "valid"]

\* a token that does not parse
Garbage == [payload |-> NoUser, exp |-> 0, sig |-> "garbage"]

\* a token whose payload was altered after signing: the signature no longer matches
Tampered(tok) == [tok EXCEPT !.payload.type = "superadmin", !.sig = "mismatch"]

\* jwt.verify(token, secret): signature first, then expiry
JwtVerify(tok, secret, t) ==
  IF secret = Absent \/ tok.sig # "valid" THEN [ok |-> FALSE, name |-> "JsonWebTokenError", payload |-> NoUser]
  ELSE IF t >= tok.exp THEN [ok |-> FALSE, name |-> "TokenExpiredError", payload |-> NoUser]
  ELSE [ok |-> TRUE, name |-> "", payload |-> tok.payload]

(***************************************************************************)
(* Authorization policy                                                    *)
(***************************************************************************)
\* seeded fault: a claim without a tenant matches every tenant
canAccessAsblOpen(asblCode, user) ==
  IF user.type = "superadmin" THEN TRUE
  ELSE user.asblId = asblCode \/ ~Truthy(user.asblId)

canAccessAsbl(asblCode, user) ==
  IF user.type = "superadmin" THEN TRUE
  ELSE user.asblId = asblCode

\* seeded fault: any claim that has a role passes, whatever the route allows
requireRoleAny(roles, user) == Present(user.type)

requireRole(roles, user) == Present(user.type) /\ user.type \in roles

(***************************************************************************)
(* The Airtable base                                                       *)
(***************************************************************************)
A == <<"A">>
B == <<"B">>
C == <<"C">>

AsblFields(id, codeAdmin, participants, reservations) ==
  [id |-> id, codeAdmin |-> codeAdmin, participants |-> participants, reservations |-> reservations]

BenevoleFields(codeAcces, asblId, asblCode, asbl, ASBL) ==
  [codeAcces |-> codeAcces, asblId |-> asblId, asblCode |-> asblCode, asbl |-> asbl, ASBL |-> ASBL]

\* the base as the collaborators left it: two organizations with a business id,
\* one without; a volunteer with a direct tenant field, one linked to its
\* organization only by record id, one with no tenant at all
InitStore ==
  [asbl |-> ( "recA" :> AsblFields(Str(A), "ca", Arr(<<"p1", "p2">>), Arr(<<"r1">>))
           @@ "recB" :> AsblFields(Str(B), "cb", Arr(<<"p3">>), Arr(<<"r2">>))
           @@ "recN" :> AsblFields(Undefined, "cn", Undefined, Undefined) ),
   benevoles |-> ( "benA" :> BenevoleFields("va", Str(A), Undefined, Undefined, Undefined)
                @@ "benL" :> BenevoleFields("vl", Undefined, Undefined, Arr(<<"recB">>), Undefined)
                @@ "benU" :> BenevoleFields("vu", Undefined, Undefined, Undefined, Undefined) ),
   participants |-> ( "p1" :> [asblId |-> Str(A)]
                   @@ "p2" :> [asblId |-> Undefined]
                   @@ "p3" :> [asblId |-> Str(B)] ),
   reservations |-> ( "r1" :> [asblId |-> Str(A)]
                   @@ "r2" :> [asblId |-> Str(B)] )]

NewAsblIds == <<"recN1", "recN2", "recN3">>
NewBenevoleIds == <<"benN1", "benN2", "benN3">>

CreatedAsbl(st) == Cardinality(DOMAIN st.asbl) - Cardinality(DOMAIN InitStore.asbl)
CreatedBenevoles(st) == Cardinality(DOMAIN st.benevoles) - Cardinality(DOMAIN InitStore.benevoles)

\* the first record of a selection (Airtable returns them in a fixed order)
First(ids) == IF ids = {} THEN "" ELSE CHOOSE x \in ids : TRUE

\* base('ASBL').select({ filterByFormula: `{id} = '${asblCode}'`, maxRecords: 1 })
\* returns a record id, or "" for null
findAsblByBusinessId(st, asblCode) ==
  First({x \in DOMAIN st.asbl : st.asbl[x].id = Str(asblCode)})

\* seeded fault: the relation is tried before the direct fields
getAsblCodeRelationFirst(f, st, up) ==
  LET linked == IF f.asbl.k = "array" THEN f.asbl.s
                ELSE IF f.ASBL.k = "array" THEN f.ASBL.s ELSE <<>>
      asblRecordId == IF linked # <<>> THEN linked[1] ELSE ""
  IN IF asblRecordId # "" /\ up /\ asblRecordId \in DOMAIN st.asbl
          /\ NonBlankString(st.asbl[asblRecordId].id)
       THEN [val |-> Str(Trim(st.asbl[asblRecordId].id.s)), threw |-> FALSE, calls |-> 1]
     ELSE IF NonBlankString(f.asblId) THEN [val |-> Str(Trim(f.asblId.s)), threw |-> FALSE, calls |-> 0]
     ELSE IF NonBlankString(f.asblCode) THEN [val |-> Str(Trim(f.asblCode.s)), threw |-> FALSE, calls |-> 0]
     ELSE [val |-> Null, threw |-> FALSE, calls |-> 0]

\* f: the volunteer's fields; up: whether the store answers.
\* val: the tenant code or Null; threw: base('ASBL').find rejected;
\* calls: the number of store calls made
getAsblCodeFromBenevoleRecord(f, st, up) ==
  IF NonBlankString(f.asblId) THEN [val |-> Str(Trim(f.asblId.s)), threw |-> FALSE, calls |-> 0]
  ELSE IF NonBlankString(f.asblCode) THEN [val |-> Str(Trim(f.asblCode.s)), threw |-> FALSE, calls |-> 0]
  ELSE LET linked == IF f.asbl.k = "array" THEN f.asbl.s
                     ELSE IF f.ASBL.k = "array" THEN f.ASBL.s ELSE <<>>
           asblRecordId == IF linked # <<>> THEN linked[1] ELSE ""
       IN IF asblRecordId = "" THEN [val |-> Null, threw |-> FALSE, calls |-> 0]
          ELSE IF ~up \/ asblRecordId \notin DOMAIN st.asbl
                 THEN [val |-> Null, threw |-> TRUE, calls |-> 1]
          ELSE LET code == st.asbl[asblRecordId].id
               IN [val |-> IF NonBlankString(code) THEN Str(Trim(code.s)) ELSE Null,
                   threw |-> FALSE, calls |-> 1]

\* the records fetchRecordsByIds returns: those of the table whose id is listed
fetchRecordsByIds(tbl, ids) ==
  LET safeIds == IF ids.k = "array" THEN {ids.s[i] : i \in 1..Len(ids.s)} \ {""} ELSE {}
  IN safeIds \cap DOMAIN tbl

(***************************************************************************)
(* Requests                                                                *)
(***************************************************************************)
Slots == {1, 2}

NoHeader == [scheme |-> "none", tok |-> NoToken]
Basic == [scheme |-> "Basic", tok |-> NoToken]
Bearer(tok) == [scheme |-> "Bearer", tok |-> tok]

\* pc: idle, verifyToken, authorize, requireRole, handler, checkCode, create,
\*     rejected (the handler's promise rejected and nothing was sent), done.
\* arg: tenant code of the path, query or body; rid: record id of the path;
\* code: access code or password of the body; type: the body's type field;
\* full: whether the other required body fields are there.
\* trace: the steps taken, in order; sent: the number of responses sent.
IdleReq ==
  [pc |-> "idle", route |-> "", auth |-> NoHeader, arg |-> Undefined, rid |-> "",
   code |-> Absent, type |-> Absent, full |-> TRUE, user |-> NoUser,
   status |-> 0, err |-> "", data |-> {}, token |-> NoToken, trace |-> <<>>, sent |-> 0]

Log(r, e) == [r EXCEPT !.trace = Append(@, e)]

\* res.status(status).json(...)
Send(r, status, err, data) ==
  [r EXCEPT !.pc = "done", !.status = status, !.err = err, !.data = data, !.sent = @ + 1]

Item(tbl, rid) == [tbl |-> tbl, rid |-> rid]

\* the allowed-role set each route of revision 3 declares
RouteRoles ==
  ( "GET /api/benevoles/me" :> {"benevole"}
 @@ "GET /api/asbl" :> {"superadmin"}
 @@ "POST /api/asbl" :> {"superadmin"}
 @@ "GET /api/asbl/:recordId" :> {"admin", "superadmin"}
 @@ "GET /api/asbl/by-code/:code" :> {"admin", "benevole", "superadmin"}
 @@ "GET /api/benevoles/by-asbl/:asblCode" :> {"admin", "superadmin"}
 @@ "POST /api/benevoles" :> {"admin", "superadmin"}
 @@ "GET /api/participants" :> {"admin", "benevole", "superadmin"}
 @@ "GET /api/reservations" :> {"admin", "benevole", "superadmin"}
 @@ "GET /api/reservations/by-asbl/:asblCode" :> {"admin", "superadmin"} )

\* the stage that follows verifyToken on the route
AfterVerify(v, route) ==
  IF v = 3 THEN (IF route \in DOMAIN RouteRoles THEN "requireRole" ELSE "handler")
  ELSE IF v = 1 /\ route = "GET /api/asbl/:id" THEN "authorize"
  ELSE "handler"

\* seeded fault: expiry is reported with the message of an invalid token
verifyTokenOneMessage(r, e, t) ==
  LET token == IF r.auth.scheme = "Bearer" THEN r.auth.tok ELSE NoToken
      v == JwtVerify(token, e.secret, t)
      r1 == Log(r, "verifyToken")
  IN IF token = NoToken THEN Send(r1, 401, "Token manquant", {})
     ELSE IF v.ok THEN [r1 EXCEPT !.user = v.payload, !.pc = AfterVerify(e.variant, r.route)]
     ELSE Send(r1, 401, "Token invalide", {})

\* the same in the three revisions
verifyToken(r, e, t) ==
  LET token == IF r.auth.scheme = "Bearer" THEN r.auth.tok ELSE NoToken
      v == JwtVerify(token, e.secret, t)
      r1 == Log(r, "verifyToken")
  IN IF token = NoToken THEN Send(r1, 401, "Token manquant", {})
     ELSE IF v.ok THEN [r1 EXCEPT !.user = v.payload, !.pc = AfterVerify(e.variant, r.route)]
     ELSE IF v.name = "TokenExpiredError" THEN Send(r1, 401, "Token expire", {})
     ELSE Send(r1, 401, "Token invalide", {})

\* the middleware requireRole(roles) of revision 3
requireRoleStep(r) ==
  LET r1 == Log(r, "requireRole")
  IN IF requireRole(RouteRoles[r.route], r.user) THEN [r1 EXCEPT !.pc = "handler"]
     ELSE Send(r1, 403, "Acces refuse (role)", {})

(***************************************************************************)
(* Handlers of revision 3.  up: whether the store answers the handler's    *)
(* calls (a call that does not is a rejected promise, caught by the        *)
(* handler's try/catch).                                                   *)
(***************************************************************************)
\* POST /api/superadmin/login; the password is in r.code.  Without a secret
\* jwt.sign throws outside any try/catch and the async handler's promise
\* rejects: the router either leaves the rejection unhandled, and nothing is
\* sent, or (caught) passes it to its error handler, which answers 500
superadminLogin(r, e, t, caught) ==
  IF ~Present(e.password) THEN Send(r, 500, "SUPERADMIN_PASSWORD manquant", {})
  ELSE IF r.code # e.password THEN Send(r, 401, "Mot de passe superadmin incorrect", {})
  ELSE IF e.secret = Absent
    THEN (IF caught THEN Send(r, 500, "Internal Server Error", {}) ELSE [r EXCEPT !.pc = "rejected"])
  ELSE [Send(r, 200, "", {}) EXCEPT !.token = JwtSign(Claim(Absent, "superadmin", Undefined), t)]

\* the record the login selects by access code
LoginRecord(st, type, code) ==
  IF type = "admin"
    THEN First({x \in DOMAIN st.asbl : st.asbl[x].codeAdmin = code})
    ELSE First({x \in DOMAIN st.benevoles : st.benevoles[x].codeAcces = code})

\* POST /api/auth/login
authLogin(r, st, e, t, up) ==
  LET record == LoginRecord(st, r.type, r.code)
      r1 == Log(r, "store")
  IN IF ~Present(r.code) \/ ~Present(r.type) THEN Send(r, 400, "code et type requis", {})
     ELSE IF r.type \notin {"admin", "benevole"} THEN Send(r, 400, "type invalide", {})
     ELSE IF ~up THEN Send(r1, 500, "Erreur serveur", {})
     ELSE IF record = "" THEN Send(r1, 401, "Code invalide", {})
     ELSE IF r.type = "admin" THEN
       LET asblId == st.asbl[record].id
       IN IF ~Truthy(asblId) THEN Send(r1, 500, "Champ ASBL 'id' manquant dans Airtable", {})
          ELSE IF e.secret = Absent THEN Send(r1, 500, "Erreur serveur", {})
          ELSE [Send(r1, 200, "", {Item("ASBL", record)})
                  EXCEPT !.token = JwtSign(Claim(record, r.type, asblId), t)]
     ELSE
       LET res == getAsblCodeFromBenevoleRecord(st.benevoles[record], st, up)
       IN IF res.threw THEN Send(r1, 500, "Erreur serveur", {})
          ELSE IF ~Truthy(res.val) THEN Send(r1, 500, "Benevole sans ASBL liee", {})
          ELSE IF e.secret = Absent THEN Send(r1, 500, "Erreur serveur", {})
          ELSE [Send(r1, 200, "", {Item("Benevoles", record)})
                  EXCEPT !.token = JwtSign(Claim(record, r.type, res.val), t)]

\* GET /api/auth/me
authMe(r) == Send(r, 200, "", {})

\* GET /api/benevoles/me
benevolesMe(r, st, up) ==
  LET r1 == Log(r, "store")
  IN IF ~up \/ r.user.id \notin DOMAIN st.benevoles THEN Send(r1, 500, "Erreur /api/benevoles/me", {})
     ELSE Send(r1, 200, "", {Item("Benevoles", r.user.id)})

\* GET /api/asbl
asblList(r, st, up) ==
  LET r1 == Log(r, "store")
  IN IF ~up THEN Send(r1, 500, "Erreur Airtable", {})
     ELSE Send(r1, 200, "", {Item("ASBL", x) : x \in DOMAIN st.asbl})

\* GET /api/asbl/:recordId
asblByRecordId(r, st, up) ==
  LET r1 == Log(r, "store")
      r2 == Log(r1, "scope")
  IN IF ~up \/ r.rid \notin DOMAIN st.asbl THEN Send(r1, 500, "Erreur Airtable", {})
     ELSE IF r.user.type = "admin" /\ r.user.id # r.rid
       THEN Send(r2, 403, "Acces refuse (ASBL non autorisee)", {})
     ELSE Send(r2, 200, "", {Item("ASBL", r.rid)})

\* seeded fault: the tenant check of the by-code route is dropped
asblByCodeUnscoped(r, st, up) ==
  LET record == findAsblByBusinessId(st, r.arg.s)
      r2 == Log(Log(r, "scope"), "store")
  IN IF ~up THEN Send(r2, 500, "Erreur Airtable", {})
     ELSE IF record = "" THEN Send(r2, 404, "ASBL introuvable", {})
     ELSE Send(r2, 200, "", {Item("ASBL", record)})

\* seeded fault: the caller's tenant is read again from the store instead of the claim
asblByCodeFresh(r, st, up) ==
  LET fresh == IF r.user.id \in DOMAIN st.benevoles
                 THEN getAsblCodeFromBenevoleRecord(st.benevoles[r.user.id], st, TRUE).val
                 ELSE r.user.asblId
      user == [r.user EXCEPT !.asblId = fresh]
      record == findAsblByBusinessId(st, r.arg.s)
      r1 == Log(r, "scope")
      r2 == Log(r1, "store")
  IN IF ~canAccessAsbl(r.arg, user) THEN Send(r1, 403, "Acces refuse (ASBL non autorisee)", {})
     ELSE IF ~up THEN Send(r2, 500, "Erreur Airtable", {})
     ELSE IF record = "" THEN Send(r2, 404, "ASBL introuvable", {})
     ELSE Send(r2, 200, "", {Item("ASBL", record)})

\* GET /api/asbl/by-code/:code
asblByCode(r, st, up) ==
  LET record == findAsblByBusinessId(st, r.arg.s)
      r1 == Log(r, "scope")
      r2 == Log(r1, "store")
  IN IF ~canAccessAsbl(r.arg, r.user) THEN Send(r1, 403, "Acces refuse (ASBL non autorisee)", {})
     ELSE IF ~up THEN Send(r2, 500, "Erreur Airtable", {})
     ELSE IF record = "" THEN Send(r2, 404, "ASBL introuvable", {})
     ELSE Send(r2, 200, "", {Item("ASBL", record)})

\* GET /api/benevoles/by-asbl/:asblCode
benevolesByAsbl(r, st, up) ==
  LET r1 == Log(r, "scope")
      r2 == Log(r1, "store")
  IN IF r.user.type = "admin" /\ r.user.asblId # r.arg
       THEN Send(r1, 403, "Acces refuse (ASBL non autorisee)", {})
     ELSE IF ~up THEN Send(r2, 500, "Erreur Airtable", {})
     ELSE Send(r2, 200, "", {Item("Benevoles", x) : x \in {y \in DOMAIN st.benevoles : st.benevoles[y].asblId = r.arg}})

\* GET /api/reservations/by-asbl/:asblCode
reservationsByAsbl(r, st, up) ==
  LET r1 == Log(r, "scope")
      r2 == Log(r1, "store")
  IN IF r.user.type = "admin" /\ r.user.asblId # r.arg
       THEN Send(r1, 403, "Acces refuse (ASBL non autorisee)", {})
     ELSE IF ~up THEN Send(r2, 500, "Erreur reservations", {})
     ELSE Send(r2, 200, "", {Item("Reservations", x) : x \in {y \in DOMAIN st.reservations : st.reservations[y].asblId = r.arg}})

\* GET /api/participants?asblId=
participants(r, st, up) ==
  LET asblId == QueryString(r.arg)
      asblRecord == findAsblByBusinessId(st, asblId)
      r1 == Log(r, "scope")
      r2 == Log(r1, "store")
  IN IF asblId = <<>> THEN Send(r, 400, "asblId manquant", {})
     ELSE IF ~canAccessAsbl(Str(asblId), r.user) THEN Send(r1, 403, "Acces refuse (ASBL non autorisee)", {})
     ELSE IF ~up THEN Send(r2, 500, "Erreur participants", {})
     ELSE IF asblRecord = "" THEN Send(r2, 404, "ASBL introuvable", {})
     ELSE Send(r2, 200, "",
            {Item("participants", x) : x \in fetchRecordsByIds(st.participants, st.asbl[asblRecord].participants)})

\* GET /api/reservations?asblId=
reservations(r, st, up) ==
  LET asblId == QueryString(r.arg)
      asblRecord == findAsblByBusinessId(st, asblId)
      r1 == Log(r, "scope")
      r2 == Log(r1, "store")
  IN IF asblId = <<>> THEN Send(r, 400, "asblId manquant", {})
     ELSE IF ~canAccessAsbl(Str(asblId), r.user) THEN Send(r1, 403, "Acces refuse (ASBL non autorisee)", {})
     ELSE IF ~up THEN Send(r2, 500, "Erreur reservations", {})
     ELSE IF asblRecord = "" THEN Send(r2, 404, "ASBL introuvable", {})
     ELSE Send(r2, 200, "",
            {Item("Reservations", x) : x \in fetchRecordsByIds(st.reservations, st.asbl[asblRecord].reservations)})

\* seeded fault: the body's asblId is written whatever the caller's role
finalAsblIdFromBody(r) == r.arg

\* the tenant POST /api/benevoles writes: the claim's for an admin, the body's otherwise
finalAsblId(r) == IF r.user.type = "admin" THEN r.user.asblId ELSE r.arg

\* POST /api/asbl up to the creation: validation and uniqueness check of the business id
asblCreateCheck(r, st, up) ==
  LET r1 == Log(r, "store")
  IN IF ~Truthy(r.arg) \/ ~r.full \/ ~Present(r.code)
       THEN Send(r, 400, "Champs requis: id, nom, email, codeAdmin", {})
     ELSE IF ~up THEN Send(r1, 500, "Erreur Airtable", {})
     ELSE IF findAsblByBusinessId(st, r.arg.s) # "" THEN Send(r1, 409, "ASBL existe deja", {})
     ELSE [r1 EXCEPT !.pc = "create"]

\* POST /api/asbl: base('ASBL').create and the response
asblCreate(r, st, up) ==
  LET r1 == Log(r, "store")
      newId == NewAsblIds[CreatedAsbl(st) + 1]
  IN IF ~up THEN [r |-> Send(r1, 500, "Erreur Airtable", {}), st |-> st]
     ELSE [r |-> Send(r1, 200, "", {Item("ASBL", newId)}),
           st |-> [st EXCEPT !.asbl = @ @@ (newId :> AsblFields(r.arg, r.code, Undefined, Undefined))]]

\* POST /api/benevoles up to the second store call: validation, tenant, ASBL lookup
benevoleCreateFind(r, st, up) ==
  LET r1 == Log(r, "scope")
      r2 == Log(r1, "store")
  IN IF ~r.full \/ ~Present(r.code) THEN Send(r, 400, "Champs requis: nom, codeAcces", {})
     ELSE IF ~Truthy(finalAsblId(r)) THEN Send(r1, 400, "asblId requis pour creer un benevole (superadmin)", {})
     ELSE IF ~up THEN Send(r2, 500, "Erreur Airtable", {})
     ELSE IF findAsblByBusinessId(st, finalAsblId(r).s) = "" THEN Send(r2, 404, "ASBL introuvable", {})
     ELSE [r2 EXCEPT !.pc = "checkCode"]

\* POST /api/benevoles: the uniqueness check of codeAcces
benevoleCreateCheck(r, st, up) ==
  LET r1 == Log(r, "store")
  IN IF ~up THEN Send(r1, 500, "Erreur Airtable", {})
     ELSE IF \E x \in DOMAIN st.benevoles : st.benevoles[x].codeAcces = r.code
       THEN Send(r1, 409, "codeAcces deja utilise", {})
     ELSE [r1 EXCEPT !.pc = "create"]

\* POST /api/benevoles: base('Benevoles').create and the response
benevoleCreate(r, st, up) ==
  LET r1 == Log(r, "store")
      newId == NewBenevoleIds[CreatedBenevoles(st) + 1]
  IN IF ~up THEN [r |-> Send(r1, 500, "Erreur Airtable", {}), st |-> st]
     ELSE [r |-> Send(r1, 200, "", {Item("Benevoles", newId)}),
           st |-> [st EXCEPT !.benevoles = @ @@
                     (newId :> BenevoleFields(r.code, finalAsblId(r), Undefined, Undefined, Undefined))]]

(***************************************************************************)
(* Handlers of revisions 1 and 2                                           *)
(***************************************************************************)
\* POST /api/auth/login of revision 1: the type is not validated and the
\* tenant is record.fields.id, which a Benevoles record does not have
authLoginV1(r, st, e, t, up) ==
  LET record == LoginRecord(st, r.type, r.code)
      r1 == Log(r, "store")
      asblId == IF r.type = "admin" THEN st.asbl[record].id ELSE Undefined
  IN IF ~up THEN Send(r1, 500, "Erreur serveur", {})
     ELSE IF record = "" THEN Send(r1, 401, "Code invalide", {})
     ELSE IF e.secret = Absent THEN Send(r1, 500, "Erreur serveur", {})
     ELSE [Send(r1, 200, "", {Item(IF r.type = "admin" THEN "ASBL" ELSE "Benevoles", record)})
             EXCEPT !.token = JwtSign(Claim(record, r.type, asblId), t)]

\* POST /api/auth/login of revision 2
authLoginV2(r, st, e, t, up) ==
  LET record == LoginRecord(st, r.type, r.code)
      r1 == Log(r, "store")
      asblId == IF r.type = "admin" THEN st.asbl[record].id ELSE Undefined
  IN IF ~up THEN Send(r1, 500, "Erreur serveur", {})
     ELSE IF record = "" THEN Send(r1, 401, "Code invalide", {})
     ELSE IF e.secret = Absent THEN Send(r1, 500, "Erreur serveur", {})
     ELSE [Send(r1, 200, "", {Item(IF r.type = "admin" THEN "ASBL" ELSE "Benevoles", record)})
             EXCEPT !.token = JwtSign(Claim(record, r.type, asblId), t)]

\* the middleware authorizeAdminAsblRecordId of revision 1
authorizeAdminAsblRecordIdV1(r) ==
  LET r1 == Log(r, "scope")
  IN IF r.user.type # "admin" THEN Send(r1, 403, "Acces reserve admin", {})
     ELSE IF r.rid # r.user.id THEN Send(r1, 403, "Acces interdit a une autre ASBL", {})
     ELSE [r1 EXCEPT !.pc = "handler"]

\* GET /api/asbl/:id of revision 1, after the middleware
asblByIdV1(r, st, up) ==
  LET r1 == Log(r, "store")
  IN IF ~up \/ r.rid \notin DOMAIN st.asbl THEN Send(r1, 500, "Erreur Airtable", {})
     ELSE Send(r1, 200, "", {Item("ASBL", r.rid)})

\* the helper authorizeAdminAsblRecordId of revision 2: TRUE when it refused
authorizeAdminAsblRecordIdV2(requestedRecordId, user) ==
  user.type # "admin" \/ requestedRecordId # user.id

\* GET /api/asbl/:id of revision 2
asblByIdV2(r, st, up) ==
  LET r1 == Log(r, "scope")
      r2 == Log(r1, "store")
  IN IF authorizeAdminAsblRecordIdV2(r.rid, r.user) THEN Send(r1, 403, "Acces refuse", {})
     ELSE IF ~up \/ r.rid \notin DOMAIN st.asbl THEN Send(r2, 500, "Erreur Airtable", {})
     ELSE Send(r2, 200, "", {Item("ASBL", r.rid)})

\* authorizeAdminAsblByCode of revisions 1 and 2: TRUE when it refused
authorizeAdminAsblByCode(asblFields, user) ==
  user.type # "admin" \/ asblFields.id # user.asblId

\* GET /api/asbl/by-code/:code of revision 1: the record is read, then the caller is checked
asblByCodeV1(r, st, up) ==
  LET record == findAsblByBusinessId(st, r.arg.s)
      r1 == Log(r, "store")
      r2 == Log(r1, "scope")
  IN IF ~up THEN Send(r1, 500, "Erreur Airtable", {})
     ELSE IF record = "" THEN Send(r1, 404, "ASBL introuvable", {})
     ELSE IF authorizeAdminAsblByCode(st.asbl[record], r.user) THEN Send(r2, 403, "Acces interdit a une autre ASBL", {})
     ELSE Send(r2, 200, "", {Item("ASBL", record)})

\* GET /api/asbl/by-code/:code of revision 2
asblByCodeV2(r, st, up) ==
  LET record == findAsblByBusinessId(st, r.arg.s)
      r1 == Log(r, "store")
      r2 == Log(r1, "scope")
  IN IF ~up THEN Send(r1, 500, "Erreur Airtable", {})
     ELSE IF record = "" THEN Send(r1, 404, "ASBL introuvable", {})
     ELSE IF authorizeAdminAsblByCode(st.asbl[record], r.user) THEN Send(r2, 403, "Acces refuse", {})
     ELSE Send(r2, 200, "", {Item("ASBL", record)})

(***************************************************************************)
(* The requests a client can send                                          *)
(***************************************************************************)
TenantArgs == {Str(A), Str(B), Str(C), Str(<<" ", "A">>)}
QueryArgs == TenantArgs \cup {Undefined, Str(<<" ">>)}
RecordIds == {"recA", "recB", "recX"}
LoginCodes == {"ca", "cb", "cn", "va", "vl", "vu", "zz", Absent}
LoginTypes == {"admin", "benevole", "superadmin", Absent}
Passwords == {"pw", "no", Absent}

\* id, codeAdmin and presence of nom and email in the body of POST /api/asbl
AsblBodies ==
  {<<Str(A), "cc", TRUE>>, <<Str(C), "cc", TRUE>>, <<Undefined, "cc", TRUE>>,
   <<Str(C), Absent, TRUE>>, <<Str(C), "cc", FALSE>>}

\* asblId, codeAcces and presence of nom in the body of POST /api/benevoles
BenevoleBodies ==
  {<<Str(A), "vn", TRUE>>, <<Str(B), "vn", TRUE>>, <<Str(B), "va", TRUE>>, <<Str(A), "vl", TRUE>>,
   <<Str(C), "vn", TRUE>>, <<Undefined, "vn", TRUE>>, <<Str(A), Absent, TRUE>>, <<Str(A), "vn", FALSE>>}

\* the authorization headers that fail verifyToken whatever the time
BadAuths(h) ==
  {NoHeader, Basic, Bearer(NoToken), Bearer(Garbage)}
    \cup (IF h = NoToken THEN {} ELSE {Bearer(Tampered(h))})

Public(route, arg, rid, code, type, full) ==
  [IdleReq EXCEPT !.pc = "handler", !.route = route, !.arg = arg, !.rid = rid,
                  !.code = code, !.type = type, !.full = full]

Protected(route, auth, arg, rid, code, full) ==
  [IdleReq EXCEPT !.pc = "verifyToken", !.route = route, !.auth = auth, !.arg = arg,
                  !.rid = rid, !.code = code, !.full = full]

\* the inputs of a protected route
RouteInputs(route, st) ==
  CASE route \in {"GET /api/auth/me", "GET /api/benevoles/me", "GET /api/asbl"} ->
         {<<Undefined, "", Absent, TRUE>>}
    [] route \in {"GET /api/asbl/:recordId", "GET /api/asbl/:id"} ->
         {<<Undefined, x, Absent, TRUE>> : x \in RecordIds}
    [] route \in {"GET /api/asbl/by-code/:code", "GET /api/benevoles/by-asbl/:asblCode",
                  "GET /api/reservations/by-asbl/:asblCode"} ->
         {<<a, "", Absent, TRUE>> : a \in TenantArgs}
    [] route \in {"GET /api/participants", "GET /api/reservations"} ->
         {<<a, "", Absent, TRUE>> : a \in QueryArgs}
    [] route = "POST /api/asbl" ->
         IF CreatedAsbl(st) < MaxCreated THEN {<<b[1], "", b[2], b[3]>> : b \in AsblBodies} ELSE {}
    [] route = "POST /api/benevoles" ->
         IF CreatedBenevoles(st) < MaxCreated THEN {<<b[1], "", b[2], b[3]>> : b \in BenevoleBodies} ELSE {}

ProtectedRoutes(v) ==
  IF v = 3 THEN DOMAIN RouteRoles \cup {"GET /api/auth/me"}
  ELSE {"GET /api/asbl/:id", "GET /api/asbl/by-code/:code"}

\* every input of a route with the held token, one input with each failing header
ProtectedRequests(v, h, st) ==
  UNION {
    {Protected(route, Bearer(h), i[1], i[2], i[3], i[4]) : i \in (IF h = NoToken THEN {} ELSE RouteInputs(route, st))}
      \cup
    {Protected(route, a, i[1], i[2], i[3], i[4]) :
        a \in BadAuths(h),
        i \in (IF RouteInputs(route, st) = {} THEN {} ELSE {CHOOSE x \in RouteInputs(route, st) : TRUE})}
    : route \in ProtectedRoutes(v)}

LoginRequests(v) ==
  {Public("POST /api/auth/login", Undefined, "", c, ty, TRUE) : c \in LoginCodes, ty \in LoginTypes}
    \cup (IF v = 3
            THEN {Public("POST /api/superadmin/login", Undefined, "", pw, Absent, TRUE) : pw \in Passwords}
            ELSE {})

(***************************************************************************)
(* Actions                                                                 *)
(***************************************************************************)
NoFn == [op |-> "", user |-> NoUser, arg |-> Undefined, roles |-> {},
         f |-> BenevoleFields(Absent, Undefined, Undefined, Undefined, Undefined),
         up |-> TRUE, applied |-> FALSE,
         res |-> [val |-> Null, threw |-> FALSE, calls |-> 0], ok |-> FALSE]

Envs ==
  {[variant |-> v, password |-> c[1], secret |-> c[2]] :
     v \in {1, 2, 3}, c \in {<<"pw", "key">>, <<Absent, "key">>, <<"pw", Absent>>}}

Init ==
  /\ env \in Envs
  /\ store = InitStore
  /\ now = 0
  /\ held = NoToken
  /\ req = [s \in Slots |-> IdleReq]
  /\ active = {1}
  /\ fn = NoFn

At(s, v, route, pc) ==
  /\ s \in active
  /\ env.variant = v
  /\ req[s].route = route
  /\ req[s].pc = pc

\* the slot's request becomes r; nothing else changes
Becomes(s, r) ==
  /\ req' = [req EXCEPT ![s] = r]
  /\ UNCHANGED <<env, store, now, held, active, fn>>

\* a login answers r; the client keeps the token of a successful login
LoggedIn(s, r) ==
  /\ req' = [req EXCEPT ![s] = r]
  /\ held' = IF r.status = 200 THEN r.token ELSE held
  /\ UNCHANGED <<env, store, now, active, fn>>

\* a create step answers out.r and leaves the store as out.st
Wrote(s, out) ==
  /\ req' = [req EXCEPT ![s] = out.r]
  /\ store' = out.st
  /\ UNCHANGED <<env, now, held, active, fn>>

\* the route's handler function is entered
Enter(r) == Log(r, "handler")

\* the volunteers the collaborators move between organizations
Movable == {"benA"}

\* the base is edited outside the program: a volunteer is assigned to another tenant
Reassign ==
  /\ \E x \in Movable, t \in {Str(A), Str(B)} :
       /\ store.benevoles[x].asblId # t
       /\ store' = [store EXCEPT !.benevoles[x].asblId = t]
  /\ UNCHANGED <<env, now, held, req, active, fn>>

Tick ==
  /\ now + ExpiresInHours <= MaxTime
  /\ now' = now + ExpiresInHours
  /\ UNCHANGED <<env, store, held, req, active, fn>>

Arrive(s) ==
  /\ s \in active
  /\ req[s].pc = "idle"
  /\ \E r \in LoginRequests(env.variant) \cup ProtectedRequests(env.variant, held, store) :
       Becomes(s, r)

\* the exchange is over (answered, or abandoned by the client): the slot is free again
Finish(s) ==
  /\ s \in active
  /\ req[s].pc \in {"done", "rejected"}
  /\ Becomes(s, IdleReq)

VerifyToken(s) ==
  /\ s \in active
  /\ req[s].pc = "verifyToken"
  /\ Becomes(s, verifyToken(req[s], env, now))

RequireRole(s) ==
  /\ s \in active
  /\ req[s].pc = "requireRole"
  /\ Becomes(s, requireRoleStep(req[s]))

SuperadminLogin(s) ==
  /\ At(s, 3, "POST /api/superadmin/login", "handler")
  /\ \E caught \in BOOLEAN : LoggedIn(s, superadminLogin(Enter(req[s]), env, now, caught))

AuthLogin(s) ==
  /\ At(s, 3, "POST /api/auth/login", "handler")
  /\ \E up \in BOOLEAN : LoggedIn(s, authLogin(Enter(req[s]), store, env, now, up))

AuthMe(s) ==
  /\ At(s, 3, "GET /api/auth/me", "handler")
  /\ Becomes(s, authMe(Enter(req[s])))

BenevolesMe(s) ==
  /\ At(s, 3, "GET /api/benevoles/me", "handler")
  /\ \E up \in BOOLEAN : Becomes(s, benevolesMe(Enter(req[s]), store, up))

AsblList(s) ==
  /\ At(s, 3, "GET /api/asbl", "handler")
  /\ \E up \in BOOLEAN : Becomes(s, asblList(Enter(req[s]), store, up))

AsblCreateCheck(s) ==
  /\ At(s, 3, "POST /api/asbl", "handler")
  /\ \E up \in BOOLEAN : Becomes(s, asblCreateCheck(Enter(req[s]), store, up))

AsblCreate(s) ==
  /\ At(s, 3, "POST /api/asbl", "create")
  /\ \E up \in BOOLEAN : Wrote(s, asblCreate(req[s], store, up))

AsblByRecordId(s) ==
  /\ At(s, 3, "GET /api/asbl/:recordId", "handler")
  /\ \E up \in BOOLEAN : Becomes(s, asblByRecordId(Enter(req[s]), store, up))

AsblByCode(s) ==
  /\ At(s, 3, "GET /api/asbl/by-code/:code", "handler")
  /\ \E up \in BOOLEAN : Becomes(s, asblByCode(Enter(req[s]), store, up))

BenevolesByAsbl(s) ==
  /\ At(s, 3, "GET /api/benevoles/by-asbl/:asblCode", "handler")
  /\ \E up \in BOOLEAN : Becomes(s, benevolesByAsbl(Enter(req[s]), store, up))

BenevoleCreateFind(s) ==
  /\ At(s, 3, "POST /api/benevoles", "handler")
  /\ \E up \in BOOLEAN : Becomes(s, benevoleCreateFind(Enter(req[s]), store, up))

BenevoleCreateCheck(s) ==
  /\ At(s, 3, "POST /api/benevoles", "checkCode")
  /\ \E up \in BOOLEAN : Becomes(s, benevoleCreateCheck(req[s], store, up))

BenevoleCreate(s) ==
  /\ At(s, 3, "POST /api/benevoles", "create")
  /\ \E up \in BOOLEAN : Wrote(s, benevoleCreate(req[s], store, up))

Participants(s) ==
  /\ At(s, 3, "GET /api/participants", "handler")
  /\ \E up \in BOOLEAN : Becomes(s, participants(Enter(req[s]), store, up))

Reservations(s) ==
  /\ At(s, 3, "GET /api/reservations", "handler")
  /\ \E up \in BOOLEAN : Becomes(s, reservations(Enter(req[s]), store, up))

ReservationsByAsbl(s) ==
  /\ At(s, 3, "GET /api/reservations/by-asbl/:asblCode", "handler")
  /\ \E up \in BOOLEAN : Becomes(s, reservationsByAsbl(Enter(req[s]), store, up))

AuthLoginV1(s) ==
  /\ At(s, 1, "POST /api/auth/login", "handler")
  /\ \E up \in BOOLEAN : LoggedIn(s, authLoginV1(Enter(req[s]), store, env, now, up))

AuthorizeAdminAsblRecordIdV1(s) ==
  /\ At(s, 1, "GET /api/asbl/:id", "authorize")
  /\ Becomes(s, authorizeAdminAsblRecordIdV1(req[s]))

AsblByIdV1(s) ==
  /\ At(s, 1, "GET /api/asbl/:id", "handler")
  /\ \E up \in BOOLEAN : Becomes(s, asblByIdV1(Enter(req[s]), store, up))

AsblByCodeV1(s) ==
  /\ At(s, 1, "GET /api/asbl/by-code/:code", "handler")
  /\ \E up \in BOOLEAN : Becomes(s, asblByCodeV1(Enter(req[s]), store, up))

AuthLoginV2(s) ==
  /\ At(s, 2, "POST /api/auth/login", "handler")
  /\ \E up \in BOOLEAN : LoggedIn(s, authLoginV2(Enter(req[s]), store, env, now, up))

AsblByIdV2(s) ==
  /\ At(s, 2, "GET /api/asbl/:id", "handler")
  /\ \E up \in BOOLEAN : Becomes(s, asblByIdV2(Enter(req[s]), store, up))

AsblByCodeV2(s) ==
  /\ At(s, 2, "GET /api/asbl/by-code/:code", "handler")
  /\ \E up \in BOOLEAN : Becomes(s, asblByCodeV2(Enter(req[s]), store, up))

Next ==
  \/ Tick
  \/ Reassign
  \/ \E s \in Slots : Arrive(s)
  \/ \E s \in Slots : Finish(s)
  \/ \E s \in Slots : VerifyToken(s)
  \/ \E s \in Slots : RequireRole(s)
  \/ \E s \in Slots : SuperadminLogin(s)
  \/ \E s \in Slots : AuthLogin(s)
  \/ \E s \in Slots : AuthMe(s)
  \/ \E s \in Slots : BenevolesMe(s)
  \/ \E s \in Slots : AsblList(s)
  \/ \E s \in Slots : AsblCreateCheck(s)
  \/ \E s \in Slots : AsblCreate(s)
  \/ \E s \in Slots : AsblByRecordId(s)
  \/ \E s \in Slots : AsblByCode(s)
  \/ \E s \in Slots : BenevolesByAsbl(s)
  \/ \E s \in Slots : BenevoleCreateFind(s)
  \/ \E s \in Slots : BenevoleCreateCheck(s)
  \/ \E s \in Slots : BenevoleCreate(s)
  \/ \E s \in Slots : Participants(s)
  \/ \E s \in Slots : Reservations(s)
  \/ \E s \in Slots : ReservationsByAsbl(s)
  \/ \E s \in Slots : AuthLoginV1(s)
  \/ \E s \in Slots : AuthorizeAdminAsblRecordIdV1(s)
  \/ \E s \in Slots : AsblByIdV1(s)
  \/ \E s \in Slots : AsblByCodeV1(s)
  \/ \E s \in Slots : AuthLoginV2(s)
  \/ \E s \in Slots : AsblByIdV2(s)
  \/ \E s \in Slots : AsblByCodeV2(s)

Spec == Init /\ [][Next]_vars

(***************************************************************************)
(* The helper functions applied to inputs of every shape                   *)
(***************************************************************************)
FnTenants == {Undefined, Null, Str(<<>>), Str(A), Str(B), Str(<<"A", "B">>), Str(<<"a">>)}
FnTypes == {"superadmin", "admin", "benevole", "", Absent}
FnUsers == {Claim("recA", ty, a) : ty \in FnTypes, a \in FnTenants}
FnRoleSets == {RouteRoles[x] : x \in DOMAIN RouteRoles}
FnBenevoles ==
  {BenevoleFields("va", d, c, l, u) :
     d \in {Undefined, Null, Str(<<>>), Str(<<" ">>), Str(A), Str(<<" ", "A">>)},
     c \in {Undefined, Str(<<" ">>), Str(B), Str(<<"A", " ">>)},
     l \in {Undefined, Arr(<<>>), Arr(<<"recA">>), Arr(<<"recB", "recA">>), Arr(<<"recN">>), Arr(<<"recX">>)},
     u \in {Undefined, Arr(<<"recB">>)}}

\* the calls to make: the function and its arguments, not yet applied
FnCalls ==
  {[NoFn EXCEPT !.op = "canAccessAsbl", !.user = u, !.arg = a] : u \in FnUsers, a \in FnTenants}
    \cup {[NoFn EXCEPT !.op = "requireRole", !.user = u, !.roles = roles] : u \in FnUsers, roles \in FnRoleSets}
    \cup {[NoFn EXCEPT !.op = "getAsblCodeFromBenevoleRecord", !.f = f, !.up = up] :
            f \in FnBenevoles, up \in BOOLEAN}

InitFn ==
  /\ env = [variant |-> 3, password |-> "pw", secret |-> "key"]
  /\ store = InitStore
  /\ now = 0
  /\ held = NoToken
  /\ req = [s \in Slots |-> IdleReq]
  /\ active = {}
  /\ fn \in FnCalls

ApplyCanAccessAsbl ==
  /\ fn.op = "canAccessAsbl" /\ ~fn.applied
  /\ fn' = [fn EXCEPT !.applied = TRUE, !.ok = canAccessAsbl(fn.arg, fn.user)]
  /\ UNCHANGED <<env, store, now, held, req, active>>

ApplyRequireRole ==
  /\ fn.op = "requireRole" /\ ~fn.applied
  /\ fn' = [fn EXCEPT !.applied = TRUE, !.ok = requireRole(fn.roles, fn.user)]
  /\ UNCHANGED <<env, store, now, held, req, active>>

ApplyGetAsblCode ==
  /\ fn.op = "getAsblCodeFromBenevoleRecord" /\ ~fn.applied
  /\ fn' = [fn EXCEPT !.applied = TRUE, !.res = getAsblCodeFromBenevoleRecord(fn.f, store, fn.up)]
  /\ UNCHANGED <<env, store, now, held, req, active>>

NextFn ==
  \/ ApplyCanAccessAsbl
  \/ ApplyRequireRole
  \/ ApplyGetAsblCode

SpecFn == InitFn /\ [][NextFn]_vars

(***************************************************************************)
(* Two clients creating records at the same time.  Each handler runs to    *)
(* its next await in one step; the steps of the two requests interleave.   *)
(***************************************************************************)
\* the tokens the logins of revision 3 issue at hour 0 to the superadmin and
\* to the admin of "A"
ConcTokens ==
  {JwtSign(Claim(Absent, "superadmin", Undefined), 0),
   JwtSign(Claim("recA", "admin", Str(A)), 0)}

CreateRoutes == {"POST /api/asbl", "POST /api/benevoles"}

InitConc ==
  /\ env = [variant |-> 3, password |-> "pw", secret |-> "key"]
  /\ store = InitStore
  /\ now = 0
  /\ held \in ConcTokens
  /\ req = [s \in Slots |-> IdleReq]
  /\ active = Slots
  /\ fn = NoFn

ArriveCreate(s) ==
  /\ s \in active
  /\ req[s].pc = "idle"
  /\ \E route \in CreateRoutes :
       \E i \in RouteInputs(route, store) :
         Becomes(s, Protected(route, Bearer(held), i[1], i[2], i[3], i[4]))

NextConc ==
  \/ \E s \in Slots : ArriveCreate(s)
  \/ \E s \in Slots : Finish(s)
  \/ \E s \in Slots : VerifyToken(s)
  \/ \E s \in Slots : RequireRole(s)
  \/ \E s \in Slots : AsblCreateCheck(s)
  \/ \E s \in Slots : AsblCreate(s)
  \/ \E s \in Slots : BenevoleCreateFind(s)
  \/ \E s \in Slots : BenevoleCreateCheck(s)
  \/ \E s \in Slots : BenevoleCreate(s)

SpecConc == InitConc /\ [][NextConc]_vars

(***************************************************************************)
(* Properties                                                              *)
(***************************************************************************)
\* C1: canAccessAsbl answers true for a superadmin whatever the tenant code
\* (null and '' included), and for any other claim exactly when the tenant
\* code is strictly equal to the claim's asblId.
C1_CanAccessAsblExact ==
  (fn.op = "canAccessAsbl" /\ fn.applied) =>
     (fn.ok <=> (fn.user.type = "superadmin" \/ fn.arg = fn.user.asblId))

\* an admin of "A" is refused the code "AB", of which "A" is a prefix
C1_Witness ==
  /\ fn.op = "canAccessAsbl" /\ fn.applied
  /\ fn.user.type = "admin" /\ fn.user.asblId = Str(A)
  /\ fn.arg = Str(<<"A", "B">>)
  /\ ~fn.ok

\* the tenant sources of a volunteer, in the order the resolver tries them;
\* the third is the business id of the first linked organization record
TenantSources(f, st) ==
  LET linked == IF f.asbl.k = "array" THEN f.asbl.s
                ELSE IF f.ASBL.k = "array" THEN f.ASBL.s ELSE <<>>
  IN <<f.asblId, f.asblCode,
       IF linked # <<>> /\ linked[1] \in DOMAIN st.asbl THEN st.asbl[linked[1]].id ELSE Undefined>>

\* C10: getAsblCodeFromBenevoleRecord returns the first of asblId, asblCode and
\* the linked organization's business id that is a non-blank string, trimmed
\* (null when none is), and calls the store only when neither direct field resolves.
C10_FirstSourceWins ==
  (fn.op = "getAsblCodeFromBenevoleRecord" /\ fn.applied) =>
     LET src == TenantSources(fn.f, store)
         hits == {i \in 1..3 : NonBlankString(src[i])}
         first == CHOOSE i \in hits : \A j \in hits : i <= j
     IN /\ (hits \cap {1, 2} # {}) => (fn.res.calls = 0 /\ ~fn.res.threw)
        /\ ~fn.res.threw =>
             fn.res.val = (IF hits = {} THEN Null ELSE Str(Trim(src[first].s)))

\* a volunteer whose direct field says " A" and whose relation leads to "B"
\* resolves to "A" without a store call
C10_Witness ==
  /\ fn.op = "getAsblCodeFromBenevoleRecord" /\ fn.applied
  /\ fn.f.asblId = Str(<<" ", "A">>)
  /\ fn.f.asbl = Arr(<<"recB", "recA">>)
  /\ fn.res.val = Str(A)
  /\ fn.res.calls = 0

\* the steps of a request that came through verifyToken
Verified(r) == r.trace # <<>> /\ r.trace[1] = "verifyToken" /\ r.user # NoUser

HasStep(r, e) == \E i \in 1..Len(r.trace) : r.trace[i] = e

\* the routes of revision 3 that address a tenant by its code
PathTenantRoutes ==
  {"GET /api/asbl/by-code/:code", "GET /api/benevoles/by-asbl/:asblCode",
   "GET /api/reservations/by-asbl/:asblCode"}
QueryTenantRoutes == {"GET /api/participants", "GET /api/reservations"}

\* the tenant code a request addresses: the path parameter as it is, the query
\* parameter as the handler reads it; <<>> when the request names none
Addressed(r) ==
  IF r.route \in QueryTenantRoutes THEN QueryString(r.arg)
  ELSE IF r.arg.k = "string" THEN r.arg.s ELSE <<>>

\* C2: on the tenant-scoped routes of revision 3, a request whose verified
\* claim is an admin's and which addresses another tenant than the claim's is
\* answered 403 and returns no record, although it passed the role check.
C2_CrossTenantDenied ==
  \A s \in Slots :
    LET r == req[s]
    IN (/\ env.variant = 3
        /\ r.route \in PathTenantRoutes \cup QueryTenantRoutes
        /\ HasStep(r, "handler")
        /\ r.pc = "done"
        /\ r.user.type = "admin"
        /\ Addressed(r) # <<>>
        /\ Str(Addressed(r)) # r.user.asblId)
       => (r.status = 403 /\ r.data = {} /\ ~HasStep(r, "store"))

\* the admin of "A" asks for the participants of "B" and gets 403
C2_Witness ==
  \E s \in Slots :
    /\ req[s].route = "GET /api/participants"
    /\ req[s].user = Claim("recA", "admin", Str(A))
    /\ req[s].arg = Str(B)
    /\ HasStep(req[s], "requireRole") /\ HasStep(req[s], "handler")
    /\ req[s].status = 403

\* C3: a step that writes to the store on behalf of a claim that is not a
\* superadmin's adds no organization and only volunteers whose asblId is the
\* claim's asblId, whatever the body says.
C3_WritesStayInTenant ==
  [][\A s \in Slots :
       (req[s].pc = "create" /\ req'[s] # req[s] /\ req[s].user.type # "superadmin")
         => /\ store'.asbl = store.asbl
            /\ \A x \in DOMAIN store'.benevoles \ DOMAIN store.benevoles :
                 store'.benevoles[x].asblId = req[s].user.asblId]_vars

\* the admin of "A" posts a volunteer with asblId "B" in the body; the record is created in "A"
C3_Witness ==
  \E s \in Slots :
    /\ req[s].route = "POST /api/benevoles"
    /\ req[s].user = Claim("recA", "admin", Str(A))
    /\ req[s].arg = Str(B)
    /\ req[s].status = 200
    /\ \E i \in req[s].data : store.benevoles[i.rid].asblId = Str(A)

\* C6: verifyToken has four outcomes, decided by the header, the signature
\* and the clock: 401 "Token manquant" without a bearer token; 401 "Token
\* invalide" for a token that does not parse or whose signature does not match;
\* 401 "Token expire" for a well signed token at or after its expiry; otherwise
\* the decoded claim is attached and the next stage runs without a response.
C6_VerifyTokenOutcomes ==
  [][\A s \in Slots :
       (req[s].pc = "verifyToken" /\ req'[s] # req[s]) =>
         LET h == req[s].auth
             r == req'[s]
             refused(msg) == r.pc = "done" /\ r.status = 401 /\ r.err = msg /\ r.sent = 1 /\ r.user = NoUser
         IN IF h.scheme # "Bearer" \/ h.tok = NoToken THEN refused("Token manquant")
            ELSE IF h.tok.sig # "valid" \/ env.secret = Absent THEN refused("Token invalide")
            ELSE IF now >= h.tok.exp THEN refused("Token expire")
            ELSE /\ r.pc \in {"requireRole", "authorize", "handler"}
                 /\ r.user = h.tok.payload
                 /\ r.sent = 0 /\ r.status = 0]_vars

\* a well signed token presented at the hour it expires is refused as expired
C6_Witness ==
  \E s \in Slots :
    /\ req[s].auth.tok.sig = "valid"
    /\ req[s].auth.tok.exp = now
    /\ req[s].status = 401
    /\ req[s].err = "Token expire"

\* C7: on a route of revision 3 that declares roles, the handler is entered
\* only after verifyToken and requireRole, with a claim whose role is one of
\* them; a verified claim with another role, or none, is answered 403 by
\* requireRole and the handler is not entered.
C7_RoleGate ==
  \A s \in Slots :
    LET r == req[s]
    IN (env.variant = 3 /\ r.route \in DOMAIN RouteRoles) =>
         /\ (r.pc \in {"handler", "checkCode", "create"} \/ HasStep(r, "handler"))
              => /\ Verified(r)
                 /\ r.trace[2] = "requireRole"
                 /\ r.user.type \in RouteRoles[r.route]
         /\ (HasStep(r, "requireRole") /\ r.user.type \notin RouteRoles[r.route])
              => /\ r.pc = "done" /\ r.status = 403 /\ r.sent = 1
                 /\ r.trace = <<"verifyToken", "requireRole">>

\* an admin is refused the creation of an organization
C7_Witness ==
  \E s \in Slots :
    /\ req[s].route = "POST /api/asbl"
    /\ req[s].user.type = "admin"
    /\ req[s].trace = <<"verifyToken", "requireRole">>
    /\ req[s].status = 403

\* a function without one of its arguments
Without(f, x) == [y \in DOMAIN f \ {x} |-> f[y]]

\* the organization records and the volunteers of the tenants other than a
ForeignAsbl(st, a) == {x \in DOMAIN st.asbl : Truthy(st.asbl[x].id) /\ st.asbl[x].id # a}
ForeignBenevoles(st, a) ==
  {x \in DOMAIN st.benevoles :
     LET owner == getAsblCodeFromBenevoleRecord(st.benevoles[x], st, TRUE).val
     IN Truthy(owner) /\ owner # a}

\* stores that hold the same records of tenant a as st: st without one record of another tenant
Agreeing(st, a) ==
  {[st EXCEPT !.asbl = Without(@, x)] : x \in ForeignAsbl(st, a)}
    \cup {[st EXCEPT !.benevoles = Without(@, x)] : x \in ForeignBenevoles(st, a)}

\* what the handler of the request answers on the store st when the store is up
\* (POST /api/benevoles: up to its decision to create)
Outcome(r, st, v) ==
  LET h == Enter(r)
  IN CASE v = 3 /\ r.route = "GET /api/benevoles/me" -> benevolesMe(h, st, TRUE)
       [] v = 3 /\ r.route = "GET /api/asbl/:recordId" -> asblByRecordId(h, st, TRUE)
       [] v = 3 /\ r.route = "GET /api/asbl/by-code/:code" -> asblByCode(h, st, TRUE)
       [] v = 3 /\ r.route = "GET /api/benevoles/by-asbl/:asblCode" -> benevolesByAsbl(h, st, TRUE)
       [] v = 3 /\ r.route = "GET /api/reservations/by-asbl/:asblCode" -> reservationsByAsbl(h, st, TRUE)
       [] v = 3 /\ r.route = "GET /api/participants" -> participants(h, st, TRUE)
       [] v = 3 /\ r.route = "GET /api/reservations" -> reservations(h, st, TRUE)
       [] v = 3 /\ r.route = "POST /api/benevoles" ->
            LET r1 == benevoleCreateFind(h, st, TRUE)
            IN IF r1.pc = "done" THEN r1 ELSE benevoleCreateCheck(r1, st, TRUE)
       [] v = 1 /\ r.route = "GET /api/asbl/:id" -> asblByIdV1(h, st, TRUE)
       [] v = 1 /\ r.route = "GET /api/asbl/by-code/:code" -> asblByCodeV1(h, st, TRUE)
       [] v = 2 /\ r.route = "GET /api/asbl/:id" -> asblByIdV2(h, st, TRUE)
       [] v = 2 /\ r.route = "GET /api/asbl/by-code/:code" -> asblByCodeV2(h, st, TRUE)
       [] OTHER -> h

View(r) == <<r.pc, r.status, r.err, r.data>>

\* C4: in revision 3, the answer to a request whose verified claim is not a
\* superadmin's is the same on any two stores that hold the same records of
\* the claim's tenant.
C4_NoCrossTenantObservation ==
  \A s \in Slots :
    LET r == req[s]
    IN (env.variant = 3 /\ r.pc = "handler" /\ Verified(r) /\ r.user.type # "superadmin" /\ Truthy(r.user.asblId))
         => \A st2 \in Agreeing(store, r.user.asblId) :
              View(Outcome(r, store, env.variant)) = View(Outcome(r, st2, env.variant))

StepRank(e) ==
  CASE e = "verifyToken" -> 1
    [] e = "requireRole" -> 2
    [] e = "scope" -> 3
    [] e = "store" -> 4
    [] OTHER -> 0

\* C5: in revision 3, in a request to a protected route the token is verified,
\* then the role checked, then the scope checked, then the store called, in
\* that order; a request refused with 403 has made no store call.
C5_ChecksBeforeStore ==
  \A s \in Slots :
    LET r == req[s]
    IN (env.variant = 3 /\ r.trace # <<>> /\ r.trace[1] = "verifyToken") =>
         /\ \A i, j \in 1..Len(r.trace) :
              (i < j /\ StepRank(r.trace[i]) > 0 /\ StepRank(r.trace[j]) > 0)
                => StepRank(r.trace[i]) <= StepRank(r.trace[j])
         /\ r.status = 403 => ~HasStep(r, "store")

\* C8: in revision 3, a verified request for an organization record by record id is let
\* through exactly when the claim is a superadmin's or its id is the requested
\* record id; any other is answered 403 without the record.
C8_RecordIdAccess ==
  \A s \in Slots :
    LET r == req[s]
        permitted == r.user.type = "superadmin" \/ r.user.id = r.rid
    IN (env.variant = 3 /\ r.route = "GET /api/asbl/:recordId" /\ r.pc = "done" /\ Verified(r))
         => /\ permitted => r.status # 403
            /\ ~permitted => (r.status = 403 /\ r.data = {})

\* C9: every token POST /api/auth/login issues carries a non-empty asblId.
C9_LoginTokenHasTenant ==
  \A s \in Slots :
    (req[s].route = "POST /api/auth/login" /\ req[s].token # NoToken)
      => Truthy(req[s].token.payload.asblId)

\* the tenant the store assigns to a volunteer now: the first of its sources
\* that is a non-blank string, trimmed; Null when there is none
AssignedTenant(st, x) ==
  LET src == TenantSources(st.benevoles[x], st)
      hits == {i \in 1..3 : NonBlankString(src[i])}
      first == CHOOSE i \in hits : \A j \in hits : i <= j
  IN IF hits = {} THEN Null ELSE Str(Trim(src[first].s))

\* C11: in revision 3 every decision taken for a request is taken on the role
\* and the tenant its token carries, whatever the store says of the subject at
\* that moment: requireRole refuses exactly the roles outside the route's set,
\* the tenant check refuses exactly the claims that are neither a superadmin's
\* nor of the addressed tenant; and a login puts in the token it issues the
\* tenant the store assigns to the volunteer at that login.
C11_TokenClaimsDecide ==
  [][\A s \in Slots :
       LET r == req'[s]
           claim == req[s].auth.tok.payload
       IN (env.variant = 3 /\ r # req[s]) =>
            /\ req[s].pc = "requireRole" =>
                 ((r.status = 403) <=> (claim.type \notin RouteRoles[r.route]))
            /\ (/\ req[s].pc = "handler"
                /\ r.route \in PathTenantRoutes \cup QueryTenantRoutes
                /\ Addressed(r) # <<>>) =>
                 ((r.status = 403) <=>
                    ~(claim.type = "superadmin" \/ Str(Addressed(r)) = claim.asblId))
            /\ (/\ req[s].pc = "handler"
                /\ r.route = "POST /api/auth/login"
                /\ r.type = "benevole"
                /\ r.token # NoToken) =>
                 r.token.payload.asblId = AssignedTenant(store, r.token.payload.id)]_vars

\* the volunteer benA, moved to "B" in the store, is still served the
\* organization "A" and refused "B" with the token that says "A"
C11_Witness ==
  \E s \in Slots :
    /\ env.variant = 3
    /\ store.benevoles["benA"].asblId = Str(B)
    /\ req[s].auth.tok.payload = Claim("benA", "benevole", Str(A))
    /\ req[s].route = "GET /api/asbl/by-code/:code"
    /\ req[s].arg = Str(A)
    /\ req[s].status = 200

\* the routes of revision 3 that list the resources of one tenant
ListingRoutes ==
  {"GET /api/benevoles/by-asbl/:asblCode", "GET /api/reservations/by-asbl/:asblCode",
   "GET /api/participants", "GET /api/reservations"}

\* whether the listed record has a tenant on one of its own sources
HasTenant(st, i) ==
  CASE i.tbl = "Benevoles" -> Truthy(AssignedTenant(st, i.rid))
    [] i.tbl = "participants" -> NonBlankString(st.participants[i.rid].asblId)
    [] i.tbl = "Reservations" -> NonBlankString(st.reservations[i.rid].asblId)
    [] OTHER -> TRUE

\* C12: in revision 3 a listing of one tenant's volunteers, reservations or
\* participants returns no record without a tenant of its own, even when the
\* tenant's organization record lists the record's id.
C12_UnresolvedNeverListed ==
  \A s \in Slots :
    LET r == req[s]
    IN (env.variant = 3 /\ r.route \in ListingRoutes /\ r.pc = "done" /\ r.status = 200)
         => \A i \in r.data : HasTenant(store, i)

\* C13: a request never has more than one response, and a request whose
\* processing is over, on whatever path, has exactly one.
C13_ExactlyOneResponse ==
  \A s \in Slots :
    /\ req[s].sent <= 1
    /\ req[s].pc \in {"done", "rejected"} => req[s].sent = 1

\* C14: a token whose role is superadmin comes from the superadmin login, for
\* a password that is configured and equal to the one presented; a token of
\* the access-code login has the role admin or benevole, whatever the request's
\* type says, and its id is a record of the organizations for an admin, of the
\* volunteers for a benevole.
C14_RolesIssued ==
  \A s \in Slots :
    LET r == req[s]
        claim == r.token.payload
    IN r.token # NoToken =>
         /\ claim.type = "superadmin" =>
              (r.route = "POST /api/superadmin/login" /\ Present(env.password) /\ r.code = env.password)
         /\ r.route = "POST /api/auth/login" =>
              /\ claim.type \in {"admin", "benevole"}
              /\ claim.type = "admin" => claim.id \in DOMAIN store.asbl
              /\ claim.type = "benevole" => claim.id \in DOMAIN store.benevoles

\* C15: the store never holds two organization records with the same business
\* id nor two volunteers with the same codeAcces, and two requests that were
\* both answered with a created record did not present the same key.
C15_UniqueKeys ==
  /\ \A x, y \in DOMAIN store.asbl :
       (x # y /\ Truthy(store.asbl[x].id)) => store.asbl[x].id # store.asbl[y].id
  /\ \A x, y \in DOMAIN store.benevoles :
       x # y => store.benevoles[x].codeAcces # store.benevoles[y].codeAcces
  /\ \A s, t \in Slots :
       (/\ s # t
        /\ req[s].route \in CreateRoutes /\ req[s].route = req[t].route
        /\ req[s].status = 200 /\ req[t].status = 200)
         => (IF req[s].route = "POST /api/asbl" THEN req[s].arg # req[t].arg
             ELSE req[s].code # req[t].code)

====
